---------------------------- MODULE Spec2Model ----------------------------
(***************************************************************************)
(* Gold price pipeline: the raw upsert of scrape_gold_prices               *)
(* (airflow/include/utils/scrape_gold.py), the GoldDataCleaner stages      *)
(* (airflow/include/utils/data_cleaner.py) and validate_data_task          *)
(* (airflow/dags/gold_scraper_dag.py).                                     *)
(*                                                                         *)
(* Prices, volumes and dates are integers (a date is its day number).      *)
(* Quartiles are carried multiplied by 4, which is exact for the linear    *)
(* interpolation at q = 0.25 and q = 0.75.                                 *)
(***************************************************************************)
EXTENDS Integers, Sequences, FiniteSets, TLC

VARIABLES
    \* GoldDataCleaner
    df,         \* self.df: sequence of rows
    dfIn,       \* self.df on entry of the stage that ran last
    report,     \* self.cleaning_report
    cpc,        \* position of clean() in its pipeline
    \* scrape_gold_prices
    store,      \* gold_prices_raw.csv: NoFile or a sequence of bars
    rpc,        \* position of each run
    dfNew,      \* df_new of each run
    dfOut,      \* df of each run
    committed,  \* the store as the last completed to_csv left it
    latest,     \* per date, what the latest completed run that fetched it wrote:
                \* last, the value of its last bar of that date, and kept, the
                \* values of the bars of that date it persisted
    overlapped, \* some run read the store while another held an unwritten read
    failed,     \* some run so far ended in an exception
    nruns,      \* runs started so far
    \* validate_data_task
    vdf,        \* the cleaned file read back: its columns and row count
    vres        \* outcome of the validation

cvars == <<df, dfIn, report, cpc>>
rvars == <<store, rpc, dfNew, dfOut, committed, latest, overlapped, failed, nruns>>
vvars == <<vdf, vres>>
vars == <<df, dfIn, report, cpc, store, rpc, dfNew, dfOut, committed, latest,
          overlapped, failed, nruns, vdf, vres>>

-----------------------------------------------------------------------------
(* Bounds *)

MaxRows == 3        \* rows of a messy cleaner input
MaxImputeRows == 4  \* rows of an imputer input
MaxCloseRows == 6   \* rows of an outlier-detector input
MaxTypeRows == 2    \* rows of a type-normalizer input
MaxBatch == 2       \* bars of one fetched batch, serialized runs
MaxRawBatch == 1    \* bars of one fetched batch, runs that may overlap
MaxRuns == 3        \* serialized runs of the scraper
MaxRawRuns == 2     \* runs of the scraper that may overlap
MaxValidRows == 2   \* rows of a file handed to validation

-----------------------------------------------------------------------------
(* Cell values *)

\* pd.to_numeric(..., errors='coerce') turns unparseable text into NaN
NaN == -1000
\* pd.to_datetime(..., errors='coerce') turns unparseable text into NaT
NaT == -2000
\* a raw cell that holds unparseable text
Junk == -3000

Max(S) == CHOOSE x \in S : \A y \in S : y <= x
Min(S) == CHOOSE x \in S : \A y \in S : x <= y

\* rows of s at the positions of P, in order
Pick(s, P) ==
    [k \in 1..Cardinality(P) |->
        s[CHOOSE i \in P : Cardinality({j \in P : j <= i}) = k]]


-----------------------------------------------------------------------------
(* GoldDataCleaner: data_cleaner.py *)

price_cols == <<"Open", "High", "Low", "Close">>

\* __init__: df.copy() under its RangeIndex, and the fresh report
MakeFrame(rows) ==
    [i \in 1..Len(rows) |->
        [idx |-> i - 1, Date |-> rows[i].Date, Open |-> rows[i].Open,
         High |-> rows[i].High, Low |-> rows[i].Low, Close |-> rows[i].Close,
         Volume |-> rows[i].Volume]]

NewReport(n) ==
    [original_rows |-> n, duplicates_removed |-> 0, missing_values_handled |-> 0,
     outliers_detected |-> 0, final_rows |-> 0]

\* pd.to_datetime(errors='coerce')
ToDatetime(v) == IF v = Junk \/ v = NaN THEN NaT ELSE v

\* pd.to_numeric(errors='coerce')
ToNumeric(v) == IF v = Junk THEN NaN ELSE v

\* pd.to_numeric(errors='coerce').fillna(0).astype(np.int64)
ToVolume(v) == LET n == ToNumeric(v) IN IF n = NaN THEN 0 ELSE n

ConvertRow(r) ==
    [idx |-> r.idx, Date |-> ToDatetime(r.Date), Open |-> ToNumeric(r.Open),
     High |-> ToNumeric(r.High), Low |-> ToNumeric(r.Low),
     Close |-> ToNumeric(r.Close), Volume |-> ToVolume(r.Volume)]

\* drop_duplicates(subset=['Date'], keep='last'): NaT equals NaT here
DropDuplicatesLast(s) ==
    Pick(s, {i \in 1..Len(s) : \A j \in (i + 1)..Len(s) : s[j].Date # s[i].Date})

\* ffill() alone: a leading gap stays null
FilledForwardOnly(s, c, i) ==
    LET above == {j \in 1..i : s[j][c] # NaN}
    IN  IF above # {} THEN s[Max(above)][c] ELSE NaN

\* ffill() then bfill() of column c, at row i: the last valid value at or above
\* row i, else (a leading gap) the first valid value below it, else NaN
Filled(s, c, i) ==
    LET above == {j \in 1..i : s[j][c] # NaN}
        below == {j \in (i + 1)..Len(s) : s[j][c] # NaN}
    IN  IF above # {} THEN s[Max(above)][c]
        ELSE IF below # {} THEN s[Min(below)][c]
        ELSE NaN

\* self.df[price_cols] = self.df[price_cols].ffill().bfill()
FillPrices(s) ==
    [i \in 1..Len(s) |->
        [idx |-> s[i].idx, Date |-> s[i].Date, Open |-> Filled(s, "Open", i),
         High |-> Filled(s, "High", i), Low |-> Filled(s, "Low", i),
         Close |-> Filled(s, "Close", i), Volume |-> s[i].Volume]]

HasNaPrice(r) == \E k \in 1..Len(price_cols) : r[price_cols[k]] = NaN

\* dropna(subset=price_cols)
DropNa(s) == Pick(s, {i \in 1..Len(s) : ~HasNaPrice(s[i])})

\* self.df[price_cols].isna().sum().sum()
CountMissing(s) ==
    Cardinality({<<i, k>> \in (1..Len(s)) \X (1..Len(price_cols)) :
                    s[i][price_cols[k]] = NaN})

\* a comparison with NaN is False
NumLess(a, b) == a # NaN /\ b # NaN /\ a < b

\* invalid = self.df[self.df[high_c] < self.df[low_c]]
Invalid(s) == {s[i].idx : i \in {j \in 1..Len(s) : NumLess(s[j].High, s[j].Low)}}

SwapHighLowBroken(r) == [r EXCEPT !.High = r.Low]

\* df.loc[invalid.index, [high_c, low_c]] = df.loc[invalid.index, [low_c, high_c]].values
SwapHighLow(r) == [r EXCEPT !.High = r.Low, !.Low = r.High]

FixPrices(s) ==
    [i \in 1..Len(s) |-> IF s[i].idx \in Invalid(s) THEN SwapHighLow(s[i]) ELSE s[i]]

\* ascending sort of a sequence of numbers
SortNums(c) ==
    LET rank(j) == Cardinality({i \in 1..Len(c) : c[i] < c[j] \/ (c[i] = c[j] /\ i < j)})
    IN  [k \in 1..Len(c) |-> c[CHOOSE j \in 1..Len(c) : rank(j) = k - 1]]

Closes(s) == [i \in 1..Len(s) |-> s[i].Close]

\* 4 * Series.quantile(k / 4), linear interpolation between the two order
\* statistics around position (n - 1) * k / 4; NaN for an empty series
Quantile4(c, k) ==
    IF c = <<>> THEN NaN
    ELSE LET srt == SortNums(c)
             pos == (Len(c) - 1) * k
             lo  == (pos \div 4) + 1
             hi  == IF lo < Len(c) THEN lo + 1 ELSE lo
         IN  4 * srt[lo] + (pos % 4) * (srt[hi] - srt[lo])

IsOutlierLoose(x, q1, q3) ==
    q1 # NaN /\ (4 * x <= q1 - 3 * (q3 - q1) \/ 4 * x >= q3 + 3 * (q3 - q1))

\* (close < q1 - 3 * iqr) | (close > q3 + 3 * iqr), q1 and q3 given times 4
IsOutlier(x, q1, q3) ==
    q1 # NaN /\ (4 * x < q1 - 3 * (q3 - q1) \/ 4 * x > q3 + 3 * (q3 - q1))

Outliers(s) ==
    LET q1 == Quantile4(Closes(s), 1)
        q3 == Quantile4(Closes(s), 3)
    IN  {i \in 1..Len(s) : IsOutlier(s[i].Close, q1, q3)}

\* sort_values puts NaT last (na_position='last')
DateBefore(a, b) == a # NaT /\ (b = NaT \/ a < b)

\* sort_values(by='Date'); rows of equal date keep their order
SortRows(s) ==
    LET first(i, j) == \/ DateBefore(s[i].Date, s[j].Date)
                       \/ (~DateBefore(s[j].Date, s[i].Date) /\ i < j)
        rank(j) == Cardinality({i \in 1..Len(s) : first(i, j)})
    IN  [k \in 1..Len(s) |-> s[CHOOSE j \in 1..Len(s) : rank(j) = k - 1]]

\* reset_index(drop=True)
ResetIndex(s) == [i \in 1..Len(s) |-> [s[i] EXCEPT !.idx = i - 1]]

ConvertDataTypes ==
    /\ cpc = "init"
    /\ dfIn' = df
    /\ df' = [i \in 1..Len(df) |-> ConvertRow(df[i])]
    /\ cpc' = "converted"
    /\ UNCHANGED report

HandleDuplicates ==
    /\ cpc = "converted"
    /\ dfIn' = df
    /\ df' = DropDuplicatesLast(df)
    /\ report' = [report EXCEPT !.duplicates_removed = Len(df) - Len(df')]
    /\ cpc' = "deduped"

HandleMissingValues ==
    /\ cpc = "deduped"
    /\ dfIn' = df
    /\ LET missing == CountMissing(df)
       IN  IF missing > 0
           THEN /\ df' = DropNa(FillPrices(df))
                /\ report' = [report EXCEPT !.missing_values_handled = missing]
           ELSE UNCHANGED <<df, report>>
    /\ cpc' = "imputed"

ValidatePriceRelationships ==
    /\ cpc = "imputed"
    /\ dfIn' = df
    /\ df' = FixPrices(df)
    /\ cpc' = "validated"
    /\ UNCHANGED report

DetectOutliers ==
    /\ cpc = "validated"
    /\ dfIn' = df
    /\ report' = [report EXCEPT !.outliers_detected = Cardinality(Outliers(df))]
    /\ cpc' = "flagged"
    /\ UNCHANGED df

SortData ==
    /\ cpc = "flagged"
    /\ dfIn' = df
    /\ df' = ResetIndex(SortRows(df))
    /\ cpc' = "sorted"
    /\ UNCHANGED report

\* clean(): final_rows, then return self.df
FinishClean ==
    /\ cpc = "sorted"
    /\ report' = [report EXCEPT !.final_rows = Len(df)]
    /\ cpc' = "done"
    /\ UNCHANGED <<df, dfIn>>

NextClean ==
    /\ \/ ConvertDataTypes
       \/ HandleDuplicates
       \/ HandleMissingValues
       \/ ValidatePriceRelationships
       \/ DetectOutliers
       \/ SortData
       \/ FinishClean
    /\ UNCHANGED <<rvars, vvars>>

-----------------------------------------------------------------------------
(* scrape_gold_prices: scrape_gold.py *)

Procs == {1, 2}
Days == {1, 2}
Quotes == {1, 2}

\* a bar of gold.history(): its date and its prices (one value stands for the row)
Bars == [Date : Days, Close : Quotes]

NoFile == [exists |-> FALSE, rows |-> <<>>]
File(rows) == [exists |-> TRUE, rows |-> rows]

BlindOverwrite(st, new) == new

\* os.path.exists(RAW_FILE): concat and drop_duplicates(keep='last'); else df_new
MergeFrames(st, new) ==
    IF st.exists THEN DropDuplicatesLast(st.rows \o new) ELSE new

\* sort_values('Date').reset_index(drop=True): every order of the rows that is
\* ascending in Date (the default sort is not stable: equal dates land in any order)
SortedOrders(s) ==
    LET n == Len(s)
        perms == {p \in [1..n -> 1..n] : \A i, j \in 1..n : i # j => p[i] # p[j]}
    IN  {[i \in 1..n |-> s[p[i]]] : p \in {q \in perms :
            \A i \in 1..(n - 1) : s[q[i]].Date <= s[q[i + 1]].Date}}

\* the value of the last bar of batch x dated d
LastOf(x, d) == x[Max({i \in 1..Len(x) : x[i].Date = d})].Close

DatesOf(s) == {s[i].Date : i \in 1..Len(s)}

\* the values of the bars of s dated d
ValuesOf(s, d) == {s[i].Close : i \in {j \in 1..Len(s) : s[j].Date = d}}

\* gold.history() returned at most maxlen bars
Fetch(r, maxlen) ==
    /\ rpc[r] = "idle"
    /\ \E n \in 1..maxlen : \E x \in [1..n -> Bars] :
          dfNew' = [dfNew EXCEPT ![r] = [i \in 1..n |-> x[i]]]
    /\ rpc' = [rpc EXCEPT ![r] = "fetched"]
    /\ nruns' = nruns + 1
    /\ UNCHANGED <<store, dfOut, committed, latest, overlapped, failed>>

\* df_new.empty: raise ValueError("No data retrieved from yfinance")
FetchEmpty(r) ==
    /\ rpc[r] = "idle"
    /\ rpc' = [rpc EXCEPT ![r] = "failed"]
    /\ nruns' = nruns + 1
    /\ failed' = TRUE
    /\ UNCHANGED <<store, dfNew, dfOut, committed, latest, overlapped>>

\* read_csv(RAW_FILE), concat, drop_duplicates; or df = df_new
ReadMerge(r) ==
    /\ rpc[r] = "fetched"
    /\ dfOut' = [dfOut EXCEPT ![r] = MergeFrames(store, dfNew[r])]
    /\ overlapped' = (overlapped \/ \E q \in Procs \ {r} : rpc[q] = "merged")
    /\ rpc' = [rpc EXCEPT ![r] = "merged"]
    /\ UNCHANGED <<store, dfNew, committed, latest, failed, nruns>>

\* sort_values, to_csv(RAW_FILE), return RAW_FILE
WriteCsv(r) ==
    /\ rpc[r] = "merged"
    /\ \E s \in SortedOrders(dfOut[r]) : store' = File(s)
    /\ committed' = store'
    /\ latest' = [d \in Days |->
                    IF d \in DatesOf(dfNew[r])
                    THEN [last |-> LastOf(dfNew[r], d), kept |-> ValuesOf(dfOut[r], d)]
                    ELSE latest[d]]
    /\ rpc' = [rpc EXCEPT ![r] = "done"]
    /\ UNCHANGED <<dfNew, dfOut, overlapped, failed, nruns>>

\* to_csv opens RAW_FILE for writing, which truncates it, and fails after k rows
WriteCsvFails(r) ==
    /\ rpc[r] = "merged"
    /\ \E s \in SortedOrders(dfOut[r]) : \E k \in 0..(Len(s) - 1) :
          store' = File(SubSeq(s, 1, k))
    /\ failed' = TRUE
    /\ rpc' = [rpc EXCEPT ![r] = "failed"]
    /\ UNCHANGED <<dfNew, dfOut, committed, latest, overlapped, nruns>>

\* the call returned or raised; the next scheduled run may start
Return(r) ==
    /\ rpc[r] \in {"done", "failed"}
    /\ rpc' = [rpc EXCEPT ![r] = "idle"]
    /\ dfNew' = [dfNew EXCEPT ![r] = <<>>]
    /\ dfOut' = [dfOut EXCEPT ![r] = <<>>]
    /\ UNCHANGED <<store, committed, latest, overlapped, failed, nruns>>

\* no run is under way
Quiet == \A q \in Procs : rpc[q] = "idle"

\* runs triggered with no serialization
NextRaw ==
    /\ \E r \in Procs :
          \/ nruns < MaxRawRuns /\ Fetch(r, MaxRawBatch)
          \/ nruns < MaxRawRuns /\ FetchEmpty(r)
          \/ ReadMerge(r)
          \/ WriteCsv(r)
          \/ WriteCsvFails(r)
          \/ Return(r)
    /\ UNCHANGED <<cvars, vvars>>

\* runs serialized by the trigger: a run starts only when none is under way
NextSerial ==
    /\ \E r \in Procs :
          \/ Quiet /\ nruns < MaxRuns /\ Fetch(r, MaxBatch)
          \/ Quiet /\ nruns < MaxRuns /\ FetchEmpty(r)
          \/ ReadMerge(r)
          \/ WriteCsv(r)
          \/ WriteCsvFails(r)
          \/ Return(r)
    /\ UNCHANGED <<cvars, vvars>>

-----------------------------------------------------------------------------
(* validate_data_task: gold_scraper_dag.py *)

required_columns == <<"Date", "Open", "High", "Low", "Close", "Volume">>

Required == {required_columns[i] : i \in 1..Len(required_columns)}

\* [col for col in required_columns if col not in df.columns]
MissingColumns(d) == SelectSeq(required_columns, LAMBDA c : c \notin d.cols)

ValidateColumnsFirst(d) ==
    IF MissingColumns(d) # <<>> THEN [kind |-> "missing", missing |-> MissingColumns(d)]
    ELSE IF d.n = 0 THEN [kind |-> "empty", missing |-> <<>>]
    ELSE [kind |-> "ok", missing |-> <<>>]

\* len(df) == 0 raises "Empty dataset"; then missing columns raise "Missing columns"
Validate(d) ==
    IF d.n = 0 THEN [kind |-> "empty", missing |-> <<>>]
    ELSE IF MissingColumns(d) # <<>>
         THEN [kind |-> "missing", missing |-> MissingColumns(d)]
         ELSE [kind |-> "ok", missing |-> <<>>]

Pending == [kind |-> "pending", missing |-> <<>>]

ValidateData ==
    /\ vres = Pending
    /\ vdf.cols # {}
    /\ vres' = Validate(vdf)
    /\ UNCHANGED vdf

NextValidate ==
    /\ ValidateData
    /\ UNCHANGED <<cvars, rvars>>

-----------------------------------------------------------------------------
(* Initial states and specifications *)

CleanerOff ==
    /\ df = <<>>
    /\ dfIn = <<>>
    /\ report = NewReport(0)
    /\ cpc = "off"

ScraperOff ==
    /\ store = NoFile
    /\ rpc = [r \in Procs |-> "idle"]
    /\ dfNew = [r \in Procs |-> <<>>]
    /\ dfOut = [r \in Procs |-> <<>>]
    /\ committed = NoFile
    /\ latest = [d \in Days |-> [last |-> 0, kept |-> {}]]
    /\ overlapped = FALSE
    /\ failed = FALSE
    /\ nruns = 0

ValidatorOff ==
    /\ vdf = [cols |-> {}, n |-> 0]
    /\ vres = Pending

\* GoldDataCleaner(df) built on the given rows
Construct(rows) ==
    /\ df = MakeFrame(rows)
    /\ dfIn = MakeFrame(rows)
    /\ report = NewReport(Len(rows))
    /\ cpc = "init"
    /\ ScraperOff
    /\ ValidatorOff

\* messy inputs: unparseable and repeated dates, null highs, high below low
MessyRows ==
    [Date : {Junk, 1, 2}, Open : {100}, High : {NaN, 90, 100}, Low : {90, 100},
     Close : {95}, Volume : {7}]

\* raw text cells: unparseable dates, prices and volumes, negative volumes
TypeRows ==
    [Date : {Junk, 1, 2}, Open : {Junk, NaN, 100}, High : {100}, Low : {90},
     Close : {95}, Volume : {Junk, NaN, -5, 0, 7}]

InitClean ==
    \E n \in 0..MaxRows : \E rows \in [1..n -> MessyRows] : Construct(rows)

\* rows of distinct dates in any order, with gaps in Open
InitImpute ==
    \E n \in 0..MaxImputeRows :
        \E d \in {e \in [1..n -> 1..MaxImputeRows] : \A i, j \in 1..n : i # j => e[i] # e[j]} :
            \E o \in [1..n -> {NaN, 100, 130}] :
                Construct([i \in 1..n |-> [Date |-> d[i], Open |-> o[i], High |-> 100,
                                           Low |-> 90, Close |-> 95, Volume |-> 7]])

\* clean rows in date order whose closes vary
InitOutliers ==
    \E n \in 0..MaxCloseRows : \E c \in [1..n -> {10, 12, 20, 100}] :
        Construct([i \in 1..n |-> [Date |-> i, Open |-> 10, High |-> 100, Low |-> 10,
                                   Close |-> c[i], Volume |-> 7]])

InitTypes ==
    \E n \in 0..MaxTypeRows : \E rows \in [1..n -> TypeRows] : Construct(rows)

InitRaw == CleanerOff /\ ScraperOff /\ ValidatorOff

InitValidate ==
    /\ CleanerOff
    /\ ScraperOff
    /\ vdf \in [cols : (SUBSET (Required \cup {"Adj Close"})) \ {{}}, n : 0..MaxValidRows]
    /\ vres = Pending

SpecClean == InitClean /\ [][NextClean]_vars
SpecImpute == InitImpute /\ [][NextClean]_vars
SpecOutliers == InitOutliers /\ [][NextClean]_vars
SpecTypes == InitTypes /\ [][NextClean]_vars
SpecRaw == InitRaw /\ [][NextRaw]_vars
SpecSerial == InitRaw /\ [][NextSerial]_vars
SpecValidate == InitValidate /\ [][NextValidate]_vars

\* the scraper as the daily schedule runs it: one run at a time
Spec == SpecSerial

-----------------------------------------------------------------------------
(* Properties *)

\* the persisted series a merged frame is written as, when only one order is possible
Persisted(st, x) == SortedOrders(MergeFrames(st, x))

\* C1: merging the batch of a completed run once more into what that run
\* persisted yields the same persisted series (merge(merge(S, X), X) = merge(S, X)),
\* for every S, the not-yet-existing one included, and every non-empty X.
UpsertIdempotent ==
    \A r \in Procs : rpc[r] = "done" => Persisted(store, dfNew[r]) = {store.rows}

\* the ascending series holding, for each date fetched so far, its latest bar
SeriesOf(l) ==
    LET ds == {d \in Days : l[d].last # 0}
    IN  [k \in 1..Cardinality(ds) |->
            LET d == CHOOSE e \in ds : Cardinality({f \in ds : f <= e}) = k
            IN  [Date |-> d, Close |-> l[d].last]]

\* C2: after any sequence of serialized successful runs the persisted series holds
\* exactly one bar per date ever fetched, that bar being the last occurrence of
\* the date in the most recent batch containing it, in ascending date order.
RawSeriesExact == ~failed => store.rows = SeriesOf(latest)

\* a comparison with NaT is False
DateLess(a, b) == a # NaT /\ b # NaT /\ a < b

\* C3: the series clean() returns has high >= low in every bar, dates strictly
\* increasing from each row to the next, and no two bars sharing a date.
CleanOutputWellFormed ==
    cpc = "done" =>
        /\ \A i \in 1..Len(df) : df[i].High >= df[i].Low
        /\ \A i \in 1..(Len(df) - 1) : DateLess(df[i].Date, df[i + 1].Date)
        /\ \A i, j \in 1..Len(df) : i # j => df[i].Date # df[j].Date

\* the value a null Open of the row dated d takes when filling runs in date order
FillInDateOrder(s, d) ==
    LET earlier == {j \in 1..Len(s) : s[j].Date < d /\ s[j].Open # NaN}
        later   == {j \in 1..Len(s) : s[j].Date > d /\ s[j].Open # NaN}
    IN  IF earlier # {}
        THEN s[CHOOSE j \in earlier : \A k \in earlier : s[k].Date <= s[j].Date].Open
        ELSE IF later # {}
        THEN s[CHOOSE j \in later : \A k \in later : s[j].Date <= s[k].Date].Open
        ELSE NaN

\* C4: the imputer fills each null price with the last known value from the
\* nearest earlier date, and only where there is none with the nearest later one,
\* for input rows in any order.
ImputerFillsInDateOrder ==
    cpc = "imputed" =>
        \A i \in 1..Len(dfIn) : \A j \in 1..Len(df) :
            (dfIn[i].Open = NaN /\ df[j].idx = dfIn[i].idx)
                => df[j].Open = FillInDateOrder(dfIn, dfIn[i].Date)

\* C5: after type normalization every volume is a non-negative integer, an
\* unparseable or negative volume having become 0, and no row was dropped.
VolumesNonNegative ==
    cpc = "converted" =>
        /\ Len(df) = Len(dfIn)
        /\ \A i \in 1..Len(df) :
              /\ df[i].Volume >= 0
              /\ (dfIn[i].Volume \in {Junk, NaN} \/ dfIn[i].Volume < 0) => df[i].Volume = 0

\* C6: whenever a run fails fatally the persisted series is the one committed
\* before the run started, which with serialized runs is the one the last
\* completed write left.
FailedRunLeavesStore == \A r \in Procs : rpc[r] = "failed" => store = committed

\* C7 as claimed: missing columns fail with the list of the absent columns
\* whatever the row count, zero rows fail as an empty dataset, and the validation
\* passes only with all six columns and at least one row.
ValidationAsClaimed ==
    vres # Pending =>
        /\ (Required \ vdf.cols # {}) =>
              /\ vres.kind = "missing"
              /\ {vres.missing[i] : i \in 1..Len(vres.missing)} = Required \ vdf.cols
        /\ (vdf.n = 0) => vres.kind = "empty"
        /\ (vres.kind = "ok") <=> (Required \subseteq vdf.cols /\ vdf.n # 0)

\* C7 amended: zero rows fail as an empty dataset whatever the columns; with at
\* least one row, missing columns fail with the list of exactly the absent
\* columns, each once; the validation passes only with all six columns and at
\* least one row.
ValidationEmptyFirst ==
    vres # Pending =>
        /\ (vdf.n = 0) => vres.kind = "empty"
        /\ (vdf.n # 0 /\ Required \ vdf.cols # {}) =>
              /\ vres.kind = "missing"
              /\ {vres.missing[i] : i \in 1..Len(vres.missing)} = Required \ vdf.cols
              /\ Len(vres.missing) = Cardinality(Required \ vdf.cols)
        /\ (vres.kind = "ok") <=> (Required \subseteq vdf.cols /\ vdf.n # 0)

\* a file with rows that lacks Volume was rejected for exactly that column
MissingVolumeRejected ==
    /\ vdf.n # 0
    /\ Required \ vdf.cols = {"Volume"}
    /\ vres = [kind |-> "missing", missing |-> <<"Volume">>]

\* the k-th smallest of the numbers of c
OrderStat(c, k) ==
    CHOOSE v \in {c[i] : i \in 1..Len(c)} :
        /\ Cardinality({i \in 1..Len(c) : c[i] < v}) < k
        /\ k <= Cardinality({i \in 1..Len(c) : c[i] <= v})

\* 4 times the quartile k / 4 of a non-empty c, by linear interpolation
Quartile4(c, k) ==
    LET pos == (Len(c) - 1) * k
        lo  == (pos \div 4) + 1
        hi  == IF lo + 1 <= Len(c) THEN lo + 1 ELSE Len(c)
    IN  4 * OrderStat(c, lo) + (pos % 4) * (OrderStat(c, hi) - OrderStat(c, lo))

\* the rows whose close is strictly outside [Q1 - 3 IQR, Q3 + 3 IQR]
OutsideFence(c) ==
    IF c = <<>> THEN {}
    ELSE LET q1 == Quartile4(c, 1)
             q3 == Quartile4(c, 3)
         IN  {i \in 1..Len(c) : 4 * c[i] < q1 - 3 * (q3 - q1) \/ 4 * c[i] > q3 + 3 * (q3 - q1)}

\* C8: outliers_detected is the number of rows whose close is strictly below
\* Q1 - 3 IQR or strictly above Q3 + 3 IQR, the quartiles taken over all the rows
\* that reach the detector; closes [10,10,10,10,10,100] give Q1 = Q3 = 10 and a
\* count of 1, and a constant series gives 0. The detector changes no row.
OutlierCountMatchesFence ==
    cpc = "flagged" =>
        LET c == Closes(df)
        IN  /\ df = dfIn
            /\ report.outliers_detected = Cardinality(OutsideFence(c))
            /\ c = <<10, 10, 10, 10, 10, 100>> =>
                  /\ Quantile4(c, 1) = 40
                  /\ Quantile4(c, 3) = 40
                  /\ report.outliers_detected = 1
            /\ (\A i, j \in 1..Len(c) : c[i] = c[j]) => report.outliers_detected = 0

\* the detector has counted the one outlier of closes [10,10,10,10,10,100]
OutlierExampleCounted ==
    /\ cpc = "flagged"
    /\ Closes(df) = <<10, 10, 10, 10, 10, 100>>
    /\ report.outliers_detected = 1

\* C9: the price-relationship validator exchanges high and low in exactly the
\* rows where high < low and changes nothing else: no other row, no date, open,
\* close or volume, not the row count, the row order or any report counter.
SwapTouchesOnlyInvalidRows ==
    [][(cpc = "imputed" /\ cpc' = "validated") =>
          /\ Len(df') = Len(df)
          /\ report' = report
          /\ \A i \in 1..Len(df) :
                /\ df'[i].idx = df[i].idx
                /\ df'[i].Date = df[i].Date
                /\ df'[i].Open = df[i].Open
                /\ df'[i].Close = df[i].Close
                /\ df'[i].Volume = df[i].Volume
                /\ IF df[i].High < df[i].Low
                   THEN df'[i].High = df[i].Low /\ df'[i].Low = df[i].High
                   ELSE df'[i].High = df[i].High /\ df'[i].Low = df[i].Low]_vars

\* the validator has turned a row with high = 90, low = 100 into high = 100, low = 90
SwapExampleReached ==
    /\ cpc = "validated"
    /\ \E i \in 1..Len(df) :
          /\ dfIn[i].High = 90 /\ dfIn[i].Low = 100
          /\ df[i].High = 100 /\ df[i].Low = 90

\* a date that some completed run persisted is no longer in the store with a
\* value which the latest run that fetched it persisted for it
Lost ==
    \E d \in Days :
        /\ latest[d].kept # {}
        /\ ValuesOf(store.rows, d) \cap latest[d].kept = {}

\* C10: with every run completing, a bar that a run merged and persisted goes
\* missing (or is overridden by an older value) only if two runs overlapped, both
\* reading the store before either wrote; serialized runs lose nothing.
LossOnlyByOverlap == (Lost /\ ~failed) => overlapped

\* two overlapping runs, both completed, and the first writer's bar is gone
LostUpdateReached ==
    /\ Lost
    /\ overlapped
    /\ ~failed
    /\ Quiet

-----------------------------------------------------------------------------
\* a price column that is null in every row of s
AllNullColumn(s) ==
    \E k \in 1..Len(price_cols) : \A i \in 1..Len(s) : s[i][price_cols[k]] = NaN

\* C11: row-count accounting of one clean() run: original_rows is the input's
\* length and conversion keeps every row; duplicates_removed is the number of rows
\* the date dedup removes (one row per distinct date survives); the imputer drops
\* every row when some price column is null in every row and none otherwise; the
\* swap, outlier and sort stages remove no row and leave the counter alone; so
\* final_rows, the length of the returned frame, is either
\* original_rows - duplicates_removed or 0 and nothing else.
RowCountAccounting ==
    [][/\ (cpc = "init" /\ cpc' = "converted") =>
            /\ report.original_rows = Len(df)
            /\ Len(df') = Len(df)
       /\ (cpc = "converted" /\ cpc' = "deduped") =>
            /\ report'.duplicates_removed = Len(df) - Len(df')
            /\ Len(df') = Cardinality({df[i].Date : i \in 1..Len(df)})
       /\ (cpc = "deduped" /\ cpc' = "imputed") =>
            /\ Len(df') = IF AllNullColumn(df) THEN 0 ELSE Len(df)
            /\ report'.duplicates_removed = report.duplicates_removed
       /\ (cpc \in {"imputed", "validated", "flagged"} /\ cpc' # cpc) =>
            /\ Len(df') = Len(df)
            /\ report'.duplicates_removed = report.duplicates_removed
       /\ (cpc = "sorted" /\ cpc' = "done") =>
            /\ report'.final_rows = Len(df')
            /\ report'.original_rows = report.original_rows
            /\ report'.duplicates_removed = report.duplicates_removed
            /\ report'.final_rows \in
                    {report'.original_rows - report'.duplicates_removed, 0}
       /\ report'.original_rows = report.original_rows]_vars

\* a finished run that removed a duplicate, imputed a null and dropped no row
AccountingWithDuplicateReached ==
    /\ cpc = "done"
    /\ report.duplicates_removed > 0
    /\ report.missing_values_handled > 0
    /\ report.final_rows > 0
    /\ report.final_rows = report.original_rows - report.duplicates_removed

=============================================================================
